---- MODULE Spec2Model ----
(***************************************************************************)
(* fcc-url-shortener (main.go): the handlers NewURL, RedirectURL and Index *)
(* running as concurrent requests against one mongo collection, with the   *)
(* slug generator they share.  Strings the code inspects character by      *)
(* character (URLs, slugs) are sequences of one-character strings.         *)
(***************************************************************************)
EXTENDS Integers, Sequences, FiniteSets, TLC

\* ------------------------------------------------------------------ bounds
\* Requests (one goroutine each) that arrive in Spec and SeqSpec; WideSpec
\* lets one more arrive.
NumReqs == 2
\* The random source yields only the values 0 .. MaxRand-1 for the last
\* character of a slug (and 0 for the others) in the request model.
MaxRand == 2
\* collisions[r] counts the candidates found taken and saturates at this value.
AttemptsCap == 2
\* Longest slug GenSpec asks GenerateSlug for.
MaxLen == 2
\* Longest string ValSpec gives ValidateURL.
MaxURLLen == 7

\* The requests that have state, and those that arrive unless the
\* specification is WideSpec.
Reqs == 1..(NumReqs + 1)
Arriving == 1..NumReqs

Min(a, b) == IF a <= b THEN a ELSE b

\* --------------------------------------------------------------- constants
\* main.go:27
chars == 
    <<"A","B","C","D","E","F","G","H","I","J","K","L","M","N","O","P","Q","R","X","W",
      "Y","Z","a","b","c","d","e","f","g","h","i","j","k","l","m","n","o","p","q","r",
      "s","t","u","v","w","x","y","z","1","2","3","4","5","6","7","8","9","0">>

\* main.go:32-34, the text of each error
ErrInvalidURL == "Invalid URL Format"
ErrNotFound == "Unable to locate a url with that slug"
ErrUnableToShortenUrl == "Unable to create shortened url"

\* main.go:60, h.Host: the value of URL_HOST of this deployment
Host == <<"s","h","o",".","r","t">>

\* main.go:117, the length NewURL asks for
SlugLength == 8

Letters ==
    {"a","b","c","d","e","f","g","h","i","j","k","l","m","n","o","p","q","r","s","t","u","v","w","x","y","z",
     "A","B","C","D","E","F","G","H","I","J","K","L","M","N","O","P","Q","R","S","T","U","V","W","X","Y","Z"}
Digits == {"0","1","2","3","4","5","6","7","8","9"}
HexDigits == Digits \cup {"a","b","c","d","e","f","A","B","C","D","E","F"}

\* ------------------------------------------------------- string helpers
\* strings.IndexByte: the first position of c in s, 0 when absent (1-based).
IndexByte(s, c) ==
    IF \E i \in 1..Len(s) : s[i] = c
    THEN CHOOSE i \in 1..Len(s) : s[i] = c /\ \A j \in 1..(i-1) : s[j] # c
    ELSE 0

\* strings.LastIndex
LastIndex(s, c) ==
    IF \E i \in 1..Len(s) : s[i] = c
    THEN CHOOSE i \in 1..Len(s) : s[i] = c /\ \A j \in (i+1)..Len(s) : s[j] # c
    ELSE 0

\* strings.HasPrefix
HasPrefix(s, p) == Len(s) >= Len(p) /\ SubSeq(s, 1, Len(p)) = p

\* strings.Contains(s, c) for a one-character c
Contains(s, c) == \E i \in 1..Len(s) : s[i] = c

\* s[i:] with a 1-based first position
From(s, i) == SubSeq(s, i, Len(s))

\* net/url split(s, c, cutc): s cut at the first c; cutc drops the c itself.
split(s, c, cutc) ==
    LET i == IndexByte(s, c) IN
    IF i = 0 THEN <<s, <<>> >>
    ELSE IF cutc THEN <<SubSeq(s, 1, i-1), From(s, i+1)>>
    ELSE <<SubSeq(s, 1, i-1), From(s, i)>>

\* ------------------------------------------------- net/url, as ValidateURL uses it
\* getScheme: the scheme before the first ':' when everything before it is a
\* letter, or (past the first character) a digit, '+', '-' or '.'; a leading
\* ':' is the error "missing protocol scheme"; anything else is "no scheme".
RECURSIVE getSchemeFrom(_, _)
getSchemeFrom(rawurl, i) ==
    IF i > Len(rawurl) THEN [err |-> FALSE, scheme |-> <<>>, rest |-> rawurl]
    ELSE IF rawurl[i] \in Letters THEN getSchemeFrom(rawurl, i + 1)
    ELSE IF rawurl[i] \in Digits \cup {"+", "-", "."}
         THEN IF i = 1 THEN [err |-> FALSE, scheme |-> <<>>, rest |-> rawurl]
              ELSE getSchemeFrom(rawurl, i + 1)
    ELSE IF rawurl[i] = ":"
         THEN IF i = 1 THEN [err |-> TRUE, scheme |-> <<>>, rest |-> <<>>]
              ELSE [err |-> FALSE, scheme |-> SubSeq(rawurl, 1, i - 1),
                    rest |-> From(rawurl, i + 1)]
    ELSE [err |-> FALSE, scheme |-> <<>>, rest |-> rawurl]

getScheme(rawurl) == getSchemeFrom(rawurl, 1)

\* unescape's check of the escapes: every '%' is followed by two hex digits.
EscapesOK(s) ==
    \A i \in 1..Len(s) :
        s[i] = "%" => /\ i + 2 <= Len(s)
                      /\ s[i+1] \in HexDigits
                      /\ s[i+2] \in HexDigits

\* shouldEscape(c, encodeHost) is false for these: a host may hold them raw.
HostChars ==
    Letters \cup Digits \cup
    {"-", "_", ".", "~", "!", "$", "&", "'", "(", ")", "*", "+", ",", ";", "=",
     ":", "[", "]", "<", ">"}

\* parseHost: a host opening with '[' needs its ']'; unescape(host, encodeHost)
\* refuses a character that would need escaping and an escape below %80.
parseHostOK(host) ==
    /\ HasPrefix(host, <<"[">>) => LastIndex(host, "]") > 0
    /\ EscapesOK(host)
    /\ \A i \in 1..Len(host) :
          \/ host[i] \in HostChars
          \/ host[i] = "%" /\ host[i+1] \in {"8", "9", "a", "b", "c", "d", "e", "f",
                                             "A", "B", "C", "D", "E", "F"}

\* parseAuthority: the host is what follows the last '@'; the user
\* information before it must unescape.
parseAuthority(authority) ==
    LET i == LastIndex(authority, "@")
        host == IF i = 0 THEN authority ELSE From(authority, i + 1)
    IN  [err |-> ~parseHostOK(host) \/ (i > 0 /\ ~EscapesOK(SubSeq(authority, 1, i - 1))),
         host |-> host]

\* The URL value url.Parse returns with an error: nil.
NilURL == [err |-> TRUE, Scheme |-> <<>>, Host |-> <<>>]

\* parse(rawurl, viaRequest = false), after the fragment is cut off.
parse(rawurl) ==
    LET s == getScheme(rawurl)
        \* the query is cut off at the first '?'
        rest == split(s.rest, "?", TRUE)[1]
        colon == IndexByte(rest, ":")
        slash == IndexByte(rest, "/")
        hasAuthority == HasPrefix(rest, <<"/", "/">>)
        cut == split(From(rest, 3), "/", FALSE)
        a == parseAuthority(cut[1])
        path == IF hasAuthority THEN cut[2] ELSE rest
    IN  IF rawurl = <<"*">> THEN [err |-> FALSE, Scheme |-> <<>>, Host |-> <<>>]
        ELSE IF s.err THEN NilURL
        ELSE IF ~HasPrefix(rest, <<"/">>) /\ s.scheme # <<>>
             THEN \* an opaque URL: scheme:opaque
                  [err |-> FALSE, Scheme |-> s.scheme, Host |-> <<>>]
        ELSE IF ~HasPrefix(rest, <<"/">>) /\ colon > 0 /\ (slash = 0 \/ colon < slash)
             THEN \* first path segment in URL cannot contain colon
                  NilURL
        ELSE IF hasAuthority /\ a.err THEN NilURL
        ELSE IF ~EscapesOK(path) THEN NilURL
        ELSE [err |-> FALSE, Scheme |-> s.scheme,
              Host |-> IF hasAuthority THEN a.host ELSE <<>>]

\* url.Parse (main.go:154): the fragment is cut at the first '#' and must
\* unescape; the rest is parsed.  Scheme is lower-cased by the library, which
\* does not change whether it is empty.
Parse(rawurl) ==
    LET f == split(rawurl, "#", TRUE)
        url == parse(f[1])
    IN  IF url.err THEN NilURL
        ELSE IF ~EscapesOK(f[2]) THEN NilURL
        ELSE url

\* main.go:153-162.  Line 156 prints u.Scheme and u.Host before err is looked
\* at: with err # nil, u is nil and the handler's goroutine panics.
ValidateURL(input) ==
    LET u == Parse(input) IN
    IF u.err THEN "panic"
    ELSE IF u.Scheme = <<>> \/ ~Contains(u.Host, ".") THEN "false"
    ELSE "true"

\* ------------------------------------------------------------ slug generator
\* The bound of the draw without its - 1: every index of chars can be drawn.
charCountWhole == Len(chars)

\* main.go:188
charCount == Len(chars) - 1

\* rand.Rand.Intn(n): some value of 0 .. n-1 (main.go:190)
Intn(n) == 0..(n - 1)

\* GenerateSlug with a loop that stops one character early.
GenerateSlugShort(length, nums) == [i \in 1..(length - 1) |-> chars[nums[i] + 1]]

\* main.go:185-197: slugBytes[i] = chars[num] for the i-th number drawn
\* (chars is indexed from 0 in the code, from 1 here).
GenerateSlug(length, nums) == [i \in 1..length |-> chars[nums[i] + 1]]

\* The numbers one GenerateSlug(length) call may draw in the request model:
\* the bounded part of Intn(charCount)^length that varies the last character.
RandomNums(length) ==
    {[i \in 1..length |-> IF i = length THEN k ELSE 0] :
        k \in Intn(Min(MaxRand, charCount))}

\* The loop guard without its c == 0: any query that succeeds ends the loop.
CountAcceptsAnyCount(err, c) == ~err

\* The loop guard without its err == nil: a failed query, which counts 0,
\* would pass for "free".
CountAcceptsIgnoringErr(err, c) == c = 0

\* main.go:206: the loop of GenerateUniqueSlug ends on a query that succeeded
\* and counted no document.
CountAccepts(err, c) == ~err /\ c = 0

\* ------------------------------------------------------------------ inputs
\* params[""] of GET /new/*: two URLs that validate, one without a dot in its
\* host, one url.Parse refuses.
URLInputs ==
    {<<"h","t","t","p","s",":","/","/","e","x","a","m","p","l","e",".","c","o","m","/","p","a","g","e">>,
     <<"f","t","p",":","/","/","h","o","s","t",".","c","o","m">>,
     <<"h","t","t","p",":","/","/","l","o","c","a","l","h","o","s","t">>,
     <<":","f","o","o">>}

\* Slugs NewURL can generate within the bounds.
Generatable == {GenerateSlug(SlugLength, n) : n \in RandomNums(SlugLength)}

\* params["slug"] of GET /:slug: every slug that can exist, and one that cannot.
SlugInputs == Generatable \cup {<<"n","o","s","u","c","h","0","0">>}

\* ------------------------------------------------------------------- state
VARIABLES
    urls,        \* the documents of collection "urls", in insertion order
    uniqueIndex, \* whether the deployment's collection has a unique index on slug
    reqDB,       \* the requests holding a copy of the master session
    handler,     \* per request: the handler the router chose
    pc,          \* per request: where its handler stands
    params,      \* per request: the route parameter (a URL or a slug)
    slug,        \* per request: the local slug of GenerateUniqueSlug / NewURL
    collisions,  \* per request: candidates found taken, counted by SeqSpec, saturating
    countErr,    \* per request: what the last Count of GenerateUniqueSlug returned
    insertErr,   \* per request: what collection.Insert returned
    findErr,     \* per request: what Find(...).One returned
    resp,        \* per request: the response written
    gen,         \* a lone GenerateSlug call: its length, numbers and result
    val          \* a lone ValidateURL call: its input and outcome

vars == <<urls, uniqueIndex, reqDB, handler, pc, params, slug, collisions, countErr, insertErr, findErr, resp, gen, val>>

NoResp == [status |-> 0, error |-> "", original_url |-> <<>>, short_url |-> <<>>, location |-> <<>>]

\* main.go:164-167, RespondError
RespondError(err, status) == [NoResp EXCEPT !.status = status, !.error = err]

\* main.go:130 and 38-42: the JSON of a URL leaves the slug out.
RespondJSON(newUrl, status) ==
    [NoResp EXCEPT !.status = status,
                   !.original_url = newUrl.original_url,
                   !.short_url = newUrl.short_url]

\* main.go:147
Redirect(target, status) == [NoResp EXCEPT !.status = status, !.location = target]

NoGen == [length |-> 0, nums |-> <<>>, called |-> FALSE, out |-> <<>>]

NoVal == [input |-> <<>>, called |-> FALSE, out |-> ""]

Init ==
    /\ urls = <<>>
    /\ uniqueIndex \in BOOLEAN
    /\ reqDB = {}
    /\ handler = [r \in Reqs |-> "none"]
    /\ pc = [r \in Reqs |-> "idle"]
    /\ params = [r \in Reqs |-> <<>>]
    /\ slug = [r \in Reqs |-> <<>>]
    /\ collisions = [r \in Reqs |-> 0]
    /\ countErr = [r \in Reqs |-> "unset"]
    /\ insertErr = [r \in Reqs |-> "unset"]
    /\ findErr = [r \in Reqs |-> "unset"]
    /\ resp = [r \in Reqs |-> NoResp]
    /\ gen = NoGen
    /\ val = NoVal

\* Requests are numbered in their order of arrival.
Arrives(r) == pc[r] = "idle" /\ (IF r = 1 THEN TRUE ELSE pc[r - 1] # "idle")

\* The documents Find(bson.M{"slug": s}) selects.
Matching(s) == {i \in DOMAIN urls : urls[i].slug = s}

\* ---------------------------------------------------------------- handlers
\* main.go:94-101
Index(r) ==
    /\ Arrives(r)
    /\ handler' = [handler EXCEPT ![r] = "Index"]
    /\ resp' = [resp EXCEPT ![r] = [NoResp EXCEPT !.status = 200]]
    /\ pc' = [pc EXCEPT ![r] = "done"]
    /\ UNCHANGED <<urls, uniqueIndex, reqDB, params, slug, collisions, countErr, insertErr, findErr, gen, val>>

\* main.go:104-115: a URL that fails validation is answered at once; a panic
\* in ValidateURL ends the handler with no response; otherwise the session is
\* copied and GenerateUniqueSlug entered.
NewURL(r) ==
    /\ Arrives(r)
    /\ \E u \in URLInputs :
          /\ handler' = [handler EXCEPT ![r] = "NewURL"]
          /\ params' = [params EXCEPT ![r] = u]
          /\ \/ /\ ValidateURL(u) = "panic"
                /\ pc' = [pc EXCEPT ![r] = "panicked"]
                /\ UNCHANGED <<resp, reqDB>>
             \/ /\ ValidateURL(u) = "false"
                /\ resp' = [resp EXCEPT ![r] = RespondError(ErrInvalidURL, 400)]
                /\ pc' = [pc EXCEPT ![r] = "done"]
                /\ UNCHANGED reqDB
             \/ /\ ValidateURL(u) = "true"
                /\ reqDB' = reqDB \cup {r}
                /\ pc' = [pc EXCEPT ![r] = "loop"]
                /\ UNCHANGED resp
    /\ UNCHANGED <<urls, uniqueIndex, slug, collisions, countErr, insertErr, findErr, gen, val>>

\* main.go:204-205: the loop calls GenerateSlug, which starts drawing from
\* the generator all requests share.
GenerateSlugCall(r) ==
    /\ pc[r] = "loop"
    /\ pc' = [pc EXCEPT ![r] = "drawing"]
    /\ UNCHANGED <<urls, uniqueIndex, reqDB, handler, params, slug, collisions, countErr, insertErr, findErr, resp, gen, val>>

\* main.go:189-196, 205: GenerateSlug returns the characters of the numbers drawn.
GenerateSlugReturn(r) ==
    /\ pc[r] = "drawing"
    /\ \E nums \in RandomNums(SlugLength) :
          slug' = [slug EXCEPT ![r] = GenerateSlug(SlugLength, nums)]
    /\ pc' = [pc EXCEPT ![r] = "count"]
    /\ UNCHANGED <<urls, uniqueIndex, reqDB, handler, params, collisions, countErr, insertErr, findErr, resp, gen, val>>

\* main.go:206-210: Count either fails (and then returns 0) or counts the
\* documents with this slug; the loop ends or goes round again.  (collisions,
\* which the code does not keep, is set by the specification that uses the
\* action.)
Count(r) ==
    /\ pc[r] = "count"
    /\ \E err \in BOOLEAN :
          LET c == IF err THEN 0 ELSE Cardinality(Matching(slug[r])) IN
          /\ countErr' = [countErr EXCEPT ![r] = IF err THEN "error" ELSE "nil"]
          /\ pc' = [pc EXCEPT ![r] = IF CountAccepts(err, c) THEN "insert" ELSE "loop"]
    /\ UNCHANGED <<urls, uniqueIndex, reqDB, handler, params, slug, insertErr, findErr, resp, gen, val>>

\* main.go:119-123
NewUrlOf(r) ==
    [slug |-> slug[r], original_url |-> params[r], short_url |-> Host \o <<"/">> \o slug[r]]

\* collection.Insert (main.go:125): what it can return for this document.
\* A collection with a unique index on slug refuses a second document with
\* the slug; any insert can fail on the storage side.
InsertResults(doc) ==
    {"storage"} \cup
    (IF uniqueIndex /\ Matching(doc.slug) # {} THEN {"duplicate"} ELSE {"nil"})

\* NewURL without the return of line 127: the 201 is written whatever err is.
InsertResponseNoReturn(err, newUrl) == RespondJSON(newUrl, 201)

\* main.go:125-130: the response NewURL writes after Insert returned err.
InsertResponse(err, newUrl) ==
    IF err # "nil" THEN RespondError(ErrUnableToShortenUrl, 400)
    ELSE RespondJSON(newUrl, 201)

\* An upsert keyed by slug in place of the insert: a document with the slug
\* is overwritten.
UpsertInto(docs, err, doc) ==
    IF err # "nil" THEN docs
    ELSE IF \E i \in DOMAIN docs : docs[i].slug = doc.slug
         THEN [i \in DOMAIN docs |-> IF docs[i].slug = doc.slug THEN doc ELSE docs[i]]
    ELSE Append(docs, doc)

\* collection.Insert (main.go:125): the collection after the call returned err.
InsertInto(docs, err, doc) == IF err = "nil" THEN Append(docs, doc) ELSE docs

\* main.go:119-130: the document is built and inserted, and the response written.
Insert(r) ==
    /\ pc[r] = "insert"
    /\ \E err \in InsertResults(NewUrlOf(r)) :
          /\ insertErr' = [insertErr EXCEPT ![r] = err]
          /\ urls' = InsertInto(urls, err, NewUrlOf(r))
          /\ resp' = [resp EXCEPT ![r] = InsertResponse(err, NewUrlOf(r))]
    /\ pc' = [pc EXCEPT ![r] = "return"]
    /\ UNCHANGED <<uniqueIndex, reqDB, handler, params, slug, collisions, countErr, findErr, gen, val>>

\* main.go:134-138
RedirectURL(r) ==
    /\ Arrives(r)
    /\ \E s \in SlugInputs : params' = [params EXCEPT ![r] = s]
    /\ handler' = [handler EXCEPT ![r] = "RedirectURL"]
    /\ reqDB' = reqDB \cup {r}
    /\ pc' = [pc EXCEPT ![r] = "find"]
    /\ UNCHANGED <<urls, uniqueIndex, slug, collisions, countErr, insertErr, findErr, resp, gen, val>>

\* Find(...).One (main.go:141): what it can return for slug s.  It fails with
\* mgo.ErrNotFound when no document matches, and can fail on the storage side.
FindResults(s) ==
    {"storage"} \cup (IF Matching(s) = {} THEN {"notfound"} ELSE {"nil"})

\* main.go:140: newUrl := URL{}, which One leaves as it is when it fails.
ZeroURL == [slug |-> <<>>, original_url |-> <<>>, short_url |-> <<>>]

\* The documents One can put in newUrl: a matching one (the query has no
\* sort) when it succeeds.
FoundDocs(err, s) == IF err = "nil" THEN {urls[i] : i \in Matching(s)} ELSE {ZeroURL}

\* RedirectURL without its err check: it redirects to whatever newUrl holds.
RedirectResponseNoErrCheck(err, newUrl) == Redirect(newUrl.original_url, 302)

\* main.go:141-147: any error of One is answered 404 with ErrNotFound;
\* otherwise the handler redirects to the document's URL.
RedirectResponse(err, newUrl) ==
    IF err # "nil" THEN RespondError(ErrNotFound, 404)
    ELSE Redirect(newUrl.original_url, 302)

\* main.go:140-149: the lookup and the response to it.
FindOne(r) ==
    /\ pc[r] = "find"
    /\ \E err \in FindResults(params[r]) :
          /\ findErr' = [findErr EXCEPT ![r] = err]
          /\ \E newUrl \in FoundDocs(err, params[r]) :
                resp' = [resp EXCEPT ![r] = RedirectResponse(err, newUrl)]
    /\ pc' = [pc EXCEPT ![r] = "return"]
    /\ UNCHANGED <<urls, uniqueIndex, reqDB, handler, params, slug, collisions, countErr, insertErr, gen, val>>

\* A handler whose session copy is never closed.
ReturnNoClose(r) ==
    /\ pc[r] = "return"
    /\ pc' = [pc EXCEPT ![r] = "done"]
    /\ UNCHANGED <<urls, uniqueIndex, reqDB, handler, params, slug, collisions, countErr, insertErr, findErr, resp, gen, val>>

\* main.go:113 and 138: the deferred reqDB.Close() as the handler returns.
Return(r) ==
    /\ pc[r] = "return"
    /\ reqDB' = reqDB \ {r}
    /\ pc' = [pc EXCEPT ![r] = "done"]
    /\ UNCHANGED <<urls, uniqueIndex, handler, params, slug, collisions, countErr, insertErr, findErr, resp, gen, val>>

\* The candidate of request r was found taken (the Count succeeded and sent
\* the loop round again): one more collision, counted up to AttemptsCap.
CountCollision(r) ==
    collisions' = [collisions EXCEPT ![r] =
                      IF countErr'[r] = "nil" /\ pc'[r] = "loop"
                      THEN Min(@ + 1, AttemptsCap) ELSE @]

\* Any number of requests in flight at once (net/http serves each request on
\* its own goroutine).  Collisions are not counted here.
Next ==
    \E r \in Arriving :
        \/ Index(r)
        \/ NewURL(r)
        \/ GenerateSlugCall(r)
        \/ GenerateSlugReturn(r)
        \/ Count(r) /\ UNCHANGED collisions
        \/ Insert(r)
        \/ RedirectURL(r)
        \/ FindOne(r)
        \/ Return(r)

Spec == Init /\ [][Next]_vars

\* The same handlers with one more request arriving: two create requests
\* and a redirect request can overlap.
WideNext ==
    \E r \in Reqs :
        \/ Index(r)
        \/ NewURL(r)
        \/ GenerateSlugCall(r)
        \/ GenerateSlugReturn(r)
        \/ Count(r) /\ UNCHANGED collisions
        \/ Insert(r)
        \/ RedirectURL(r)
        \/ FindOne(r)
        \/ Return(r)

WideSpec == Init /\ [][WideNext]_vars

\* ------------------------------------------------- one request at a time
\* Collections a deployment can start with: documents of earlier requests,
\* with distinct slugs, in any order.
RECURSIVE Orders(_)
Orders(S) ==
    IF S = {} THEN {<<>>}
    ELSE UNION {{Append(o, x) : o \in Orders(S \ {x})} : x \in S}

DocOf(s) ==
    LET u == CHOOSE x \in URLInputs : ValidateURL(x) = "true" IN
    [slug |-> s, original_url |-> u, short_url |-> Host \o <<"/">> \o s]

Stores ==
    UNION {{[i \in DOMAIN o |-> DocOf(o[i])] : o \in Orders(S)} : S \in SUBSET Generatable}

SeqInit ==
    /\ urls \in Stores
    /\ uniqueIndex \in BOOLEAN
    /\ reqDB = {}
    /\ handler = [r \in Reqs |-> "none"]
    /\ pc = [r \in Reqs |-> "idle"]
    /\ params = [r \in Reqs |-> <<>>]
    /\ slug = [r \in Reqs |-> <<>>]
    /\ collisions = [r \in Reqs |-> 0]
    /\ countErr = [r \in Reqs |-> "unset"]
    /\ insertErr = [r \in Reqs |-> "unset"]
    /\ findErr = [r \in Reqs |-> "unset"]
    /\ resp = [r \in Reqs |-> NoResp]
    /\ gen = NoGen
    /\ val = NoVal

\* No handler is running.
Quiet == \A q \in Reqs : pc[q] \in {"idle", "done", "panicked"}

\* A request arrives only when the one before it has ended.
SeqNext ==
    \E r \in Arriving :
        \/ Quiet /\ Index(r)
        \/ Quiet /\ NewURL(r)
        \/ GenerateSlugCall(r)
        \/ GenerateSlugReturn(r)
        \/ Count(r) /\ CountCollision(r)
        \/ Insert(r)
        \/ Quiet /\ RedirectURL(r)
        \/ FindOne(r)
        \/ Return(r)

SeqSpec == SeqInit /\ [][SeqNext]_vars

\* ------------------------------------------------- one create request
\* One create request against any starting collection.
AllocNext ==
    \/ NewURL(1)
    \/ GenerateSlugCall(1)
    \/ GenerateSlugReturn(1)
    \/ Count(1) /\ CountCollision(1)
    \/ Insert(1)
    \/ Return(1)

AllocSpec == SeqInit /\ [][AllocNext]_vars

\* The loop of GenerateUniqueSlug (main.go:204-210) under fair random choice
\* and a store that does not fail for ever: a request that keeps drawing
\* draws a free slug again and again, and its Count of a free slug succeeds
\* again and again; the scheduler keeps running a handler that can step.
DrawFree(r) == GenerateSlugReturn(r) /\ Matching(slug'[r]) = {}

CountFree(r) == Count(r) /\ CountCollision(r) /\ pc'[r] = "insert"

FairAllocSpec ==
    /\ AllocSpec
    /\ WF_vars(AllocNext)
    /\ SF_vars(DrawFree(1))
    /\ SF_vars(CountFree(1))

\* ------------------------------------------------- GenerateSlug on its own
\* One call GenerateSlug(length) for any length up to MaxLen and any numbers
\* the generator can return.
GenInit ==
    /\ urls = <<>>
    /\ uniqueIndex = FALSE
    /\ reqDB = {}
    /\ handler = [r \in Reqs |-> "none"]
    /\ pc = [r \in Reqs |-> "idle"]
    /\ params = [r \in Reqs |-> <<>>]
    /\ slug = [r \in Reqs |-> <<>>]
    /\ collisions = [r \in Reqs |-> 0]
    /\ countErr = [r \in Reqs |-> "unset"]
    /\ insertErr = [r \in Reqs |-> "unset"]
    /\ findErr = [r \in Reqs |-> "unset"]
    /\ resp = [r \in Reqs |-> NoResp]
    /\ \E length \in 1..MaxLen :
          \E nums \in [1..length -> Intn(charCount)] :
             gen = [length |-> length, nums |-> nums, called |-> FALSE, out |-> <<>>]
    /\ val = NoVal

GenCall ==
    /\ ~gen.called
    /\ gen' = [gen EXCEPT !.called = TRUE, !.out = GenerateSlug(gen.length, gen.nums)]
    /\ UNCHANGED <<urls, uniqueIndex, reqDB, handler, pc, params, slug, collisions, countErr, insertErr, findErr, resp, val>>

GenNext == GenCall

GenSpec == GenInit /\ [][GenNext]_vars

\* ------------------------------------------------- ValidateURL on its own
\* The characters of ValSpec's inputs: enough for a scheme, an authority, a
\* dotted host and an escape.
ValChars == {"a", ":", "/", ".", "%"}

\* The strings of up to n of these characters.
RECURSIVE Strings(_)
Strings(n) ==
    IF n = 0 THEN {<<>>}
    ELSE LET shorter == Strings(n - 1) IN
         shorter \cup {Append(w, c) : w \in {x \in shorter : Len(x) = n - 1}, c \in ValChars}

\* One call ValidateURL(input), for the URLs of the request model and every
\* string of up to MaxURLLen characters.
ValInit ==
    /\ urls = <<>>
    /\ uniqueIndex = FALSE
    /\ reqDB = {}
    /\ handler = [r \in Reqs |-> "none"]
    /\ pc = [r \in Reqs |-> "idle"]
    /\ params = [r \in Reqs |-> <<>>]
    /\ slug = [r \in Reqs |-> <<>>]
    /\ collisions = [r \in Reqs |-> 0]
    /\ countErr = [r \in Reqs |-> "unset"]
    /\ insertErr = [r \in Reqs |-> "unset"]
    /\ findErr = [r \in Reqs |-> "unset"]
    /\ resp = [r \in Reqs |-> NoResp]
    /\ gen = NoGen
    /\ \E input \in URLInputs \cup Strings(MaxURLLen) :
          val = [input |-> input, called |-> FALSE, out |-> ""]

ValCall ==
    /\ ~val.called
    /\ val' = [val EXCEPT !.called = TRUE, !.out = ValidateURL(val.input)]
    /\ UNCHANGED <<urls, uniqueIndex, reqDB, handler, pc, params, slug, collisions, countErr, insertErr, findErr, resp, gen>>

ValNext == ValCall

ValSpec == ValInit /\ [][ValNext]_vars

\* ================================================================== claims
\* A create request that got as far as its insert and has ended.
Created(r) == handler[r] = "NewURL" /\ insertErr[r] # "unset"

\* A request that is inside its handler.
Running(r) == pc[r] \in {"loop", "drawing", "count", "insert", "find", "return"}

\* Some step of request r.
Step(r) ==
    \/ GenerateSlugCall(r)
    \/ GenerateSlugReturn(r)
    \/ Count(r) /\ UNCHANGED collisions
    \/ Insert(r)
    \/ FindOne(r)
    \/ Return(r)

\* C1 (the claim as stated): with create requests running concurrently, no
\* two documents of the collection ever share a slug, a request inside its
\* handler can always take a step, and a create request that reached its
\* insert answered 201 with a slug that exactly one document has, or an error.
C1_ConcurrentCreatesUnique ==
    /\ \A i, j \in DOMAIN urls : urls[i].slug = urls[j].slug => i = j
    /\ \A r \in Reqs : Running(r) => ENABLED Step(r)
    /\ \A r \in Reqs :
          Created(r) =>
             \/ resp[r].status = 201 /\ Cardinality(Matching(slug[r])) = 1
             \/ resp[r].status = 400 /\ resp[r].error = ErrUnableToShortenUrl

\* C2: when the requests run one after another, no two documents of the
\* collection have the same slug, after any sequence of them.
C2_SequentialCreatesUnique ==
    \A i \in DOMAIN urls : \A j \in DOMAIN urls : i # j => urls[i].slug # urls[j].slug

\* C2's case: two create requests of the sequence have each inserted a document.
C2_Witness ==
    \E r, q \in Reqs : r # q /\ resp[r].status = 201 /\ resp[q].status = 201

\* C3 (the claim as stated): once a create request for URL u has answered 201
\* with slug s, every lookup of a redirect request for s that the store
\* serves from then on is answered 302 with exactly u as its target.
C3_RoundTrip ==
    [][\A q \in Reqs :
          (pc[q] = "find" /\ pc'[q] = "return" /\ findErr'[q] # "storage") =>
             \A r \in Reqs :
                (resp[r].status = 201 /\ slug[r] = params[q]) =>
                   resp'[q] = Redirect(params[r], 302)]_vars

\* C4: a redirect request for a slug that no document has is answered 404
\* with ErrNotFound and no Location, and the collection stays as it was.
C4_NotFound ==
    [][\A q \in Reqs :
          (pc[q] = "find" /\ pc'[q] = "return" /\ Matching(params[q]) = {}) =>
             /\ resp'[q] = [status |-> 404, error |-> ErrNotFound, original_url |-> <<>>,
                            short_url |-> <<>>, location |-> <<>>]
             /\ urls' = urls]_vars

\* C4's case: a redirect request for a slug without a document was answered.
C4_Witness ==
    \E q \in Reqs :
        /\ handler[q] = "RedirectURL"
        /\ pc[q] = "done"
        /\ Matching(params[q]) = {}
        /\ resp[q].status = 404

\* The URLs the claim calls invalid: url.Parse fails, or the scheme is empty,
\* or the host has no '.'.
FailsValidation(u) ==
    \/ Parse(u).err
    \/ Parse(u).Scheme = <<>>
    \/ ~Contains(Parse(u).Host, ".")

\* C5 (the claim as stated): a create request whose URL fails validation is
\* answered 400 "Invalid URL Format" at once: it has ended, generated no slug,
\* holds no session and made no insert.
C5_InvalidURLAnswered400 ==
    \A r \in Reqs :
        (handler[r] = "NewURL" /\ FailsValidation(params[r])) =>
           /\ resp[r].status = 400
           /\ resp[r].error = ErrInvalidURL
           /\ pc[r] = "done"
           /\ slug[r] = <<>>
           /\ insertErr[r] = "unset"
           /\ r \notin reqDB

\* C6: for every length and all numbers the generator returns, GenerateSlug
\* returns exactly length characters, each one a character of chars.
C6_SlugConformsToAlphabet ==
    gen.called =>
       /\ Len(gen.out) = gen.length
       /\ \A i \in 1..Len(gen.out) : \E j \in 1..Len(chars) : gen.out[i] = chars[j]

\* C6's case: a call for more than one character returned different characters.
C6_Witness ==
    /\ gen.called
    /\ gen.length >= 2
    /\ gen.out[1] # gen.out[2]

\* The same conformance for the slugs of the request model: the slug
\* GenerateUniqueSlug returned to NewURL and the slug of every document.
SlugConforms(s) ==
    /\ Len(s) = SlugLength
    /\ \A i \in 1..Len(s) : \E j \in 1..Len(chars) : s[i] = chars[j]

PersistedSlugsConform ==
    /\ \A i \in DOMAIN urls : SlugConforms(urls[i].slug)
    /\ \A r \in Reqs : pc[r] \in {"count", "insert"} => SlugConforms(slug[r])

\* C7 (the claim as stated): GenerateUniqueSlug hands NewURL only a slug no
\* document has, and however many of its first candidates are taken, it stops
\* within a configured maximum of attempts; here the maximum is the largest
\* the collision counter can tell apart, AttemptsCap - 1.
C7_CollisionRetryBounded ==
    \A r \in Reqs :
        /\ pc[r] = "insert" => Matching(slug[r]) = {}
        /\ collisions[r] <= AttemptsCap - 1

\* C8: when the insert of a create request fails, the request is answered 400
\* with ErrUnableToShortenUrl and the collection gets no document; and a 201
\* is only ever the answer to an insert that succeeded.
C8_InsertFailure ==
    /\ [][\A r \in Reqs :
            (pc[r] = "insert" /\ pc'[r] = "return" /\ insertErr'[r] # "nil") =>
               /\ resp'[r].status = 400
               /\ resp'[r].error = ErrUnableToShortenUrl
               /\ urls' = urls]_vars
    /\ [](\A r \in Reqs : resp[r].status = 201 => insertErr[r] = "nil")

\* C8's case: an insert failed and the request was answered.
C8_Witness ==
    \E r \in Reqs : insertErr[r] \in {"storage", "duplicate"} /\ resp[r].status = 400

\* C9: the collection only grows.  Every step leaves it as it is, except a
\* create request's successful insert, which appends exactly the document of
\* that request and changes none of the documents before it.
C9_AppendOnly ==
    [][\/ urls' = urls
       \/ \E r \in Reqs :
             /\ pc[r] = "insert"
             /\ pc'[r] = "return"
             /\ insertErr'[r] = "nil"
             /\ urls' = Append(urls, [slug |-> slug[r], original_url |-> params[r],
                                      short_url |-> Host \o <<"/">> \o slug[r]])]_vars

\* C9's case: a redirect request found the document a create request had
\* persisted, and the document is in the collection as it was inserted.
C9_Witness ==
    \E r, q \in Reqs :
        /\ resp[r].status = 201
        /\ handler[q] = "RedirectURL"
        /\ resp[q].status = 302
        /\ pc[q] = "done"
        /\ \E i \in DOMAIN urls :
              urls[i].slug = slug[r] /\ urls[i].original_url = params[r]

\* C10 (the claim as stated): a create request whose insert fails on a
\* duplicate key is not answered at that step; it goes back to allocate a slug.
C10_DuplicateKeyRetried ==
    [][\A r \in Reqs :
          (pc[r] = "insert" /\ insertErr'[r] = "duplicate") =>
             /\ resp'[r] = resp[r]
             /\ pc'[r] = "loop"]_vars
\* C11 (the claim as stated): no two requests are inside a draw on the shared
\* generator (in GenerateSlug, main.go:189-192) at the same time.
C11_DrawsExclusive ==
    \A r \in Reqs : \A q \in Reqs : (pc[r] = "drawing" /\ pc[q] = "drawing") => r = q

\* C12: the requests holding a session copy are exactly those inside a
\* handler that has copied one, so open sessions never outnumber the requests
\* in flight; a session is released only by the return of its own handler,
\* and every return of a handler that copied a session releases it.
C12_SessionsReleased ==
    /\ [](\A r \in Reqs : r \in reqDB <=> Running(r))
    /\ [](Cardinality(reqDB) <= Cardinality({r \in Reqs : pc[r] \notin {"idle", "done", "panicked"}}))
    /\ [][\A r \in Reqs :
            (r \in reqDB /\ r \notin reqDB') => (pc[r] = "return" /\ pc'[r] = "done")]_vars
    /\ [][\A r \in Reqs :
            (pc[r] = "return" /\ pc'[r] = "done") => (r \in reqDB /\ r \notin reqDB')]_vars

\* C12's case: a create request whose insert failed and a redirect request
\* that found nothing have both returned, and no session is open.
C12_Witness ==
    /\ reqDB = {}
    /\ \E r, q \in Reqs :
          /\ pc[r] = "done" /\ insertErr[r] = "storage"
          /\ pc[q] = "done" /\ findErr[q] = "notfound"

\* C13 (the claim as stated): ValidateURL returns a boolean for every input:
\* true when the input parses with a non-empty scheme and a host containing
\* a '.', and false for every other input, one that does not parse included.
C13_ValidateURLDecides ==
    val.called =>
       val.out = (IF FailsValidation(val.input) THEN "false" ELSE "true")

\* Request r is inside the loop of GenerateUniqueSlug.
InLoop(r) == pc[r] \in {"loop", "drawing", "count"}

\* Every slug GenerateSlug can return has a document.
KeyspaceFull == \A s \in Generatable : Matching(s) # {}

\* C14: GenerateUniqueSlug leaves its loop only on a Count that succeeded
\* and counted no document for the candidate; with every generatable slug
\* taken it stays in the loop whatever the step; and with a free slug left,
\* fair draws and queries that succeed bring the request to its insert.
C14_UnboundedLoop ==
    /\ [][\A r \in Reqs :
            (InLoop(r) /\ ~InLoop(r)') =>
               /\ pc[r] = "count"
               /\ pc'[r] = "insert"
               /\ countErr'[r] = "nil"
               /\ Matching(slug[r]) = {}]_vars
    /\ [][\A r \in Reqs : (InLoop(r) /\ KeyspaceFull) => InLoop(r)']_vars
    /\ \A r \in Reqs : (InLoop(r) /\ ~KeyspaceFull) ~> (pc[r] = "insert")

\* C14's case: with every generatable slug taken, a request is still in the
\* loop after as many collisions as the counter can hold.
C14_Witness ==
    \E r \in Reqs : InLoop(r) /\ KeyspaceFull /\ collisions[r] = AttemptsCap

\* C15: a uniqueness query that fails sends the loop round again: the step
\* writes no response and inserts nothing, the request draws a new candidate,
\* and a slug reaches the insert only after a query for it that succeeded.
C15_QueryFailureRetried ==
    /\ [][\A r \in Reqs :
            (pc[r] = "count" /\ pc'[r] # "count" /\ countErr'[r] = "error") =>
               /\ pc'[r] = "loop"
               /\ resp' = resp
               /\ urls' = urls]_vars
    /\ [](\A r \in Reqs : pc[r] = "insert" => countErr[r] = "nil")
    /\ [](\A r \in Reqs : resp[r].status = 201 => countErr[r] = "nil")

\* C15's case: a request whose query failed is drawing its next candidate.
C15_Witness ==
    \E r \in Reqs : pc[r] = "drawing" /\ countErr[r] = "error" /\ resp[r] = NoResp

\* The characters GenerateSlug can put at position i of the result of the
\* call in gen, over everything the random source can return for that draw.
ProducibleAt(i) ==
    {GenerateSlug(gen.length, [gen.nums EXCEPT ![i] = n])[i] : n \in Intn(charCount)}

\* C16 (as stated): at every position of a GenerateSlug result the characters
\* that can appear are the 62 alphanumerics without S and T.
C16_AllButSAndT ==
    gen.called =>
       \A i \in 1..gen.length : ProducibleAt(i) = (Letters \cup Digits) \ {"S", "T"}

\* C16 (amended): at every position the characters that can appear are the
\* 57 alphanumerics other than S, T, U, V and 0, and every character of a
\* result is one of them.
C16_AllButSTUVAndZero ==
    gen.called =>
       \A i \in 1..gen.length :
          /\ ProducibleAt(i) = (Letters \cup Digits) \ {"S", "T", "U", "V", "0"}
          /\ gen.out[i] \in (Letters \cup Digits) \ {"S", "T", "U", "V", "0"}

\* C16's case: a call that drew the largest number Intn(charCount) returns
\* produced the character before the last one of chars.
C16_Witness ==
    /\ gen.called
    /\ \E i \in 1..gen.length :
          /\ gen.nums[i] = charCount - 1
          /\ gen.out[i] = "9"

\* C17: a create request inserts at most one mapping (documents are added
\* one at a time, each by the insert step of a request, and a request makes
\* that step once) and sends exactly one response (it has one when it ends
\* and a response, once written, stays); the response is a 201 exactly when
\* the request's own insert succeeded, it then carries the submitted URL and
\* host + "/" + slug, and the mapping with these fields is in the store.
C17_OneInsertOneResponse ==
    /\ [][/\ Len(urls') <= Len(urls) + 1
          /\ urls' # urls =>
                \E r \in Reqs :
                   pc[r] = "insert" /\ pc'[r] = "return" /\ insertErr'[r] = "nil"]_vars
    /\ [][\A r \in Reqs : pc[r] \in {"return", "done"} => pc'[r] # "insert"]_vars
    /\ [][\A r \in Reqs : resp[r] # NoResp => resp'[r] = resp[r]]_vars
    /\ [](\A r \in Reqs :
            (handler[r] = "NewURL" /\ resp[r] # NoResp) =>
               (resp[r].status = 201 <=> insertErr[r] = "nil"))
    /\ [](\A r \in Reqs :
            resp[r].status = 201 =>
               /\ resp[r].original_url = params[r]
               /\ resp[r].short_url = Host \o <<"/">> \o slug[r]
               /\ \E i \in DOMAIN urls : urls[i] = NewUrlOf(r))
    /\ [](\A r \in Reqs :
            (handler[r] = "NewURL" /\ pc[r] \in {"done", "panicked"}) => resp[r] # NoResp)

\* C18: a redirect request for a slug that has a mapping in the store never
\* answers 404, whatever the lookup returns.
C18_NotFoundOnlyWhenAbsent ==
    [][\A q \in Reqs :
         (pc[q] = "find" /\ pc'[q] = "return" /\ Matching(params[q]) # {}) =>
            resp'[q].status # 404]_vars

====
